---- MODULE Spec2Model ----
(***************************************************************************)
(* Verification model of script/web_content_extractor.py:                  *)
(*   - WebContentExtractor._process_html_chunks (the transform loop)       *)
(*   - WebContentExtractor._split_html_into_chunks (the segmenter)         *)
(*                                                                         *)
(* A chunk of the transform loop is a slice [lo, hi) of one of the strings *)
(* the caller passed in; the positions of the '>' characters of a string   *)
(* are given by its pattern.  Lengths are the real character counts, so    *)
(* the thresholds of the code (4000, 1000) are used unscaled.              *)
(***************************************************************************)
EXTENDS Integers, Sequences, FiniteSets, TLC

VARIABLES
    \* ---- _process_html_chunks ----
    chunks,         \* the list argument, grown in place by chunks.insert
    total_chunks,   \* local total_chunks
    i,              \* 0-based index of the enumerate(chunks) iteration; -1 before the first
    chunk,          \* local chunk: the content submitted for position i
    retries,        \* local retries
    success,        \* local success
    results,        \* local results
    pc,             \* "for" (loop header), "while" (retry loop), "merge" (loop finished)
    hist,           \* outcomes of the calls made for position i, oldest first
    subs,           \* contents submitted to the service for position i, oldest first
    waits,          \* time.sleep durations performed while at position i, oldest first
    last_io,        \* the last of the function's service calls and sleeps: "none", "call", "sleep"
    mpc,            \* "batch" (lines 334-373 not finished), "returned"
    mi,             \* loop variable i of line 340
    consolidated_results, \* local consolidated_results
    mcalls,         \* the consolidation calls made, oldest first
    returned,       \* the value returned by _process_html_chunks
    \* ---- _split_html_into_chunks ----
    soup,           \* the parsed document: sequence of top-level nodes
    max_chunk_size, \* parameter max_chunk_size
    idx,            \* number of block_elements already handled by the outer loop
    seg_chunks,     \* local chunks
    current_chunk,  \* local current_chunk
    ret,            \* the returned list
    spc,            \* "loop", "check" (line 230), "done" (returned)
    \* ---- pdf2markdown.py, PDF2MarkdownLLM ----
    run_id,         \* number of run() calls started so far, on any instance
    page_count,     \* local page_count of run()
    page_num,       \* loop variable page_num of run()
    page_files,     \* text/<n>.txt and image/<n>.png under output_path: page number -> run that wrote them
    md_files,       \* markdown/<stem>.md under output_path: stem -> content
    markdown,       \* self.markdown
    saved,          \* content of output_by_llm.md
    rpc             \* "idle" (constructed, or run() raised), "pages" (in the loop of line 111), "returned"

mvars == <<mpc, mi, consolidated_results, mcalls, returned>>
pvars == <<run_id, page_count, page_num, page_files, md_files, markdown, saved, rpc>>
\* tvars and svars are what the actions of the other function leave alone,
\* the converter's variables included
tvars == <<chunks, total_chunks, i, chunk, retries, success, results, pc, hist, subs, waits,
           last_io, mpc, mi, consolidated_results, mcalls, returned, pvars>>
svars == <<soup, max_chunk_size, idx, seg_chunks, current_chunk, ret, spc, pvars>>
webvars == <<chunks, total_chunks, i, chunk, retries, success, results, pc, hist, subs, waits,
             last_io, mpc, mi, consolidated_results, mcalls, returned,
             soup, max_chunk_size, idx, seg_chunks, current_chunk, ret, spc>>
vars == <<chunks, total_chunks, i, chunk, retries, success, results, pc, hist, subs, waits,
          last_io, mpc, mi, consolidated_results, mcalls, returned,
          soup, max_chunk_size, idx, seg_chunks, current_chunk, ret, spc,
          run_id, page_count, page_num, page_files, md_files, markdown, saved, rpc>>

(***************************************************************************)
(* Bounds of the model.                                                    *)
(***************************************************************************)
\* longest chunk list handed to _process_html_chunks
MaxChunks == 2
\* the service stops answering "Request too large" for a splittable chunk
\* once the chunk list has grown to this length
MaxTotal == 3
\* distance between two '>' characters in a string of pattern "period"
GtPeriod == 700

(***************************************************************************)
(* Program constants of _process_html_chunks.                              *)
(***************************************************************************)
max_retries == 3
\* len(chunk) > 4000: no service call, local extraction
LocalLimit == 4000
\* len(chunk) > 1000: an oversize answer bisects the chunk
SplitFloor == 1000
\* 15 * (2 ** retries)
BackoffBase == 15
\* time.sleep(5) after a general error
ErrorWait == 5
\* wait_time = 2 + (retries * 2)
PaceBase == 2

(***************************************************************************)
(* Helpers.                                                                *)
(***************************************************************************)
RECURSIVE Pow2(_)
Pow2(n) == IF n = 0 THEN 1 ELSE 2 * Pow2(n - 1)

Last(s) == s[Len(s)]

SetMax(S) == CHOOSE m \in S : \A x \in S : x <= m

(***************************************************************************)
(* Strings of the transform loop.                                          *)
(***************************************************************************)
ChunkLens == {1000, 1001, 2600, 4000, 4001}
GtPatterns == {"none", "first", "period"}

\* is the character at absolute position p of a string of pattern pat a '>'
IsGt(pat, p) ==
    CASE pat = "none"   -> FALSE
      [] pat = "first"  -> p = 0
      [] pat = "period" -> p % GtPeriod = GtPeriod - 1

\* len(chunk)
Size(c) == c.hi - c.lo

\* chunk.rfind(">", start, end): index of the last '>' in chunk[start:end], or -1
RFindGt(c, start, end) ==
    LET S == {p \in start..(end - 1) : IsGt(c.pat, c.lo + p)}
    IN  IF S = {} THEN -1 ELSE SetMax(S)

\* chunk[:n] and chunk[n:]
Prefix(c, n) == [c EXCEPT !.hi = c.lo + n]
Suffix(c, n) == [c EXCEPT !.lo = c.lo + n]

\* variant of SplitPoint that tests split_point < 0, so a chunk without '>' is cut at 0
SplitPointStrictTest(c) ==
    LET half_point == Size(c) \div 2
        split_point == RFindGt(c, 0, half_point) + 1
    IN  IF split_point < 0 THEN half_point ELSE split_point

\* lines 305-309: the split point of an oversize bisection
SplitPoint(c) ==
    LET half_point == Size(c) \div 2
        split_point == RFindGt(c, 0, half_point) + 1
    IN  IF split_point <= 0 THEN half_point ELSE split_point

\* list.insert(k, x), k a 0-based index
InsertAt(s, k, x) == SubSeq(s, 1, k) \o <<x>> \o SubSeq(s, k + 1, Len(s))

\* variant of InsertSecondHalf that inserts at i, before the current position
InsertBeforeCurrent(s, pos, x) == InsertAt(s, pos, x)

\* line 318: chunks.insert(i+1, second_half)
InsertSecondHalf(s, pos, x) == InsertAt(s, pos + 1, x)

\* the exception messages the service call can raise, by the substrings the
\* handler looks for: rl = "429" or "rate_limit", tl = "Request too large"
ErrMsgs == [rl : BOOLEAN, tl : BOOLEAN]

\* what one pass of the retry loop met: a delivered payload ("ok"), the local
\* extraction ("local") or an exception with message msg ("error")
Delivered(kind) == [kind |-> kind, rl |-> FALSE, tl |-> FALSE]
Raised(msg) == [kind |-> "error", rl |-> msg.rl, tl |-> msg.tl]

\* variant of WhileCond that admits one more pass
WhileCondOneMore == ~success /\ retries <= max_retries

\* line 262: the condition of the retry loop
WhileCond == ~success /\ retries < max_retries

\* variant of IncRetries that leaves the counter alone
IncRetriesForgotten(r) == r

\* line 294: retries += 1
IncRetries(r) == r + 1

\* variant of BackoffWait that uses the count before the increment
BackoffWaitPreIncrement(r) == BackoffBase * Pow2(r - 1)

\* line 298: wait_time = 15 * (2 ** retries), retries already incremented
BackoffWait(r) == BackoffBase * Pow2(r)

\* line 287: wait_time = 2 + (retries * 2)
PaceWait(r) == PaceBase + (r * 2)

\* lines 287-290: the sleep after a delivered result
PaceSleeps(pos, total, r) ==
    IF pos < total - 1 \/ r > 0 THEN <<PaceWait(r)>> ELSE <<>>

\* the last I/O event after a service call that was or was not followed by a sleep
AfterCall(slept) == IF slept THEN "sleep" ELSE "call"

\* line 282 / 278: the entry appended for a delivered chunk
Payload(kind, c, pos) == [kind |-> kind, part |-> pos + 1, content |-> c]

\* variant of Marker that carries the 0-based index
MarkerZeroBased(c, pos) == [kind |-> "marker", part |-> pos, content |-> c]

\* line 329: the marker appended for a chunk given up after general errors
Marker(c, pos) == [kind |-> "marker", part |-> pos + 1, content |-> c]

(***************************************************************************)
(* _process_html_chunks, lines 248-331.                                    *)
(***************************************************************************)
InputChunk(k, len, pat) == [id |-> k, pat |-> pat, lo |-> 0, hi |-> len]

\* the lists the caller can pass: up to MaxChunks strings of one pattern
InputLists ==
    UNION {
        { [k \in 1..n |-> InputChunk(k, f[k], pat)] :
            f \in [1..n -> ChunkLens], pat \in GtPatterns }
        : n \in 0..MaxChunks }

\* value of the local chunk before the first iteration binds it
NoChunk == [id |-> 0, pat |-> "none", lo |-> 0, hi |-> 0]

TInit ==
    /\ chunks \in InputLists
    /\ total_chunks = Len(chunks)
    /\ i = -1
    /\ chunk = NoChunk
    /\ retries = 0
    /\ success = FALSE
    /\ results = <<>>
    /\ pc = "for"
    /\ hist = <<>>
    /\ subs = <<>>
    /\ waits = <<>>

\* line 258: enumerate(chunks) yields the next position of the (grown) list
ForNext ==
    /\ pc = "for"
    /\ i + 1 < Len(chunks)
    /\ i' = i + 1
    /\ chunk' = chunks[i + 2]
    /\ retries' = 0
    /\ success' = FALSE
    /\ hist' = <<>>
    /\ subs' = <<>>
    /\ waits' = <<>>
    /\ pc' = "while"
    /\ UNCHANGED <<chunks, total_chunks, results>>
    /\ UNCHANGED <<last_io, mvars>>
    /\ UNCHANGED svars

\* line 258: the list is exhausted, control reaches line 332
ForEnd ==
    /\ pc = "for"
    /\ i + 1 >= Len(chunks)
    /\ pc' = "merge"
    /\ UNCHANGED <<chunks, total_chunks, i, chunk, retries, success, results,
                   hist, subs, waits>>
    /\ UNCHANGED <<last_io, mvars>>
    /\ UNCHANGED svars

\* line 262: the retry loop ends
WhileExit ==
    /\ pc = "while"
    /\ ~WhileCond
    /\ pc' = "for"
    /\ UNCHANGED <<chunks, total_chunks, i, chunk, retries, success, results,
                   hist, subs, waits>>
    /\ UNCHANGED <<last_io, mvars>>
    /\ UNCHANGED svars

\* lines 271-278, 284-290: a chunk longer than 4000 is extracted without the service
LocalExtract ==
    /\ pc = "while"
    /\ WhileCond
    /\ Size(chunk) > LocalLimit
    /\ results' = Append(results, Payload("local", chunk, i))
    /\ success' = TRUE
    /\ hist' = Append(hist, Delivered("local"))
    /\ waits' = waits \o PaceSleeps(i, total_chunks, retries)
    /\ last_io' = IF PaceSleeps(i, total_chunks, retries) # <<>> THEN "sleep" ELSE last_io
    /\ UNCHANGED <<chunks, total_chunks, i, chunk, retries, subs, pc>>
    /\ UNCHANGED mvars
    /\ UNCHANGED svars

\* lines 281-290: the service returns a payload
InvokeOk ==
    /\ pc = "while"
    /\ WhileCond
    /\ Size(chunk) <= LocalLimit
    /\ subs' = Append(subs, chunk)
    /\ results' = Append(results, Payload("payload", chunk, i))
    /\ success' = TRUE
    /\ hist' = Append(hist, Delivered("ok"))
    /\ waits' = waits \o PaceSleeps(i, total_chunks, retries)
    /\ last_io' = AfterCall(PaceSleeps(i, total_chunks, retries) # <<>>)
    /\ UNCHANGED <<chunks, total_chunks, i, chunk, retries, pc>>
    /\ UNCHANGED mvars
    /\ UNCHANGED svars

\* lines 292-319: the call raises and the message has "429" or "rate_limit"
InvokeRateLimit(msg) ==
    /\ pc = "while"
    /\ WhileCond
    /\ Size(chunk) <= LocalLimit
    /\ msg.rl
    /\ (msg.tl /\ Size(chunk) > SplitFloor) => Len(chunks) < MaxTotal
    /\ subs' = Append(subs, chunk)
    /\ hist' = Append(hist, Raised(msg))
    /\ retries' = IncRetries(retries)
    /\ waits' = Append(waits, BackoffWait(retries'))
    /\ IF msg.tl /\ Size(chunk) > SplitFloor
       THEN LET split_point == SplitPoint(chunk)
                first_half == Prefix(chunk, split_point)
                second_half == Suffix(chunk, split_point)
            IN  /\ chunk' = first_half
                /\ chunks' = InsertSecondHalf(chunks, i, second_half)
                /\ total_chunks' = Len(chunks')
       ELSE UNCHANGED <<chunk, chunks, total_chunks>>
    /\ last_io' = AfterCall(TRUE)
    /\ UNCHANGED <<i, success, results, pc>>
    /\ UNCHANGED mvars
    /\ UNCHANGED svars

\* lines 292-294, 320-330: the call raises with any other message
InvokeOtherError(msg) ==
    /\ pc = "while"
    /\ WhileCond
    /\ Size(chunk) <= LocalLimit
    /\ ~msg.rl
    /\ subs' = Append(subs, chunk)
    /\ hist' = Append(hist, Raised(msg))
    /\ retries' = IncRetries(retries)
    /\ IF retries' < max_retries
       THEN /\ waits' = Append(waits, ErrorWait)
            /\ UNCHANGED <<results, success>>
       ELSE /\ results' = Append(results, Marker(chunk, i))
            /\ success' = TRUE
            /\ UNCHANGED waits
    /\ last_io' = AfterCall(retries' < max_retries)
    /\ UNCHANGED <<chunks, total_chunks, i, chunk, pc>>
    /\ UNCHANGED mvars
    /\ UNCHANGED svars


(***************************************************************************)
(* The merge stage of _process_html_chunks, lines 334-377.  A text is a    *)
(* result of the transform loop ("raw"), the answer of the service to a    *)
(* consolidation prompt built from a list of texts ("llm"), the "\n".join  *)
(* of a list of texts ("join"), or the fixed message of line 377.          *)
(***************************************************************************)
\* longest results list handed to the merge stage on its own
MaxResults == 26

\* line 338: batch_size = 5
batch_size == 5
\* line 342: len("\n\n--- フラグメント区切り ---\n\n")
BatchSepLen == 21
\* line 364: len("\n\n--- 最終結合 ---\n\n")
FinalSepLen == 16
\* line 329: len of the marker text with a one-digit chunk number
MarkerLen == 31

NoResult == [kind |-> "none", part |-> 0, content |-> NoChunk]
RawText(r) == [op |-> "raw", args |-> <<>>, leaf |-> r]
\* lines 346-349, 365-368: the stripped content of the service's answer
LlmText(frs) == [op |-> "llm", args |-> frs, leaf |-> NoResult]
\* line 377
MessageText == [op |-> "message", args |-> <<>>, leaf |-> NoResult]
NoText == [op |-> "none", args |-> <<>>, leaf |-> NoResult]

\* variant of JoinText that keeps the first member only
JoinTextFirstOnly(frs) == [op |-> "join", args |-> SubSeq(frs, 1, 1), leaf |-> NoResult]

\* lines 359, 371: "\n".join(batch)
JoinText(frs) == [op |-> "join", args |-> frs, leaf |-> NoResult]

\* the entries of results as texts
Texts(rs) == [k \in 1..Len(rs) |-> RawText(rs[k])]

\* len of a text for chunks that are main content throughout: the local
\* extraction (lines 274-278) finds nothing to remove and the service's answer
\* keeps the content it is given, so both are as long as their input; a marker
\* has its fixed text
RECURSIVE TextLen(_)
RECURSIVE SumTextLen(_)
SumTextLen(frs) == IF frs = <<>> THEN 0 ELSE TextLen(Head(frs)) + SumTextLen(Tail(frs))
TextLen(t) ==
    CASE t.op = "raw" /\ t.leaf.kind = "marker" -> MarkerLen
      [] t.op = "raw" /\ t.leaf.kind # "marker" -> Size(t.leaf.content)
      [] t.op = "join" /\ t.args # <<>>         -> SumTextLen(t.args) + (Len(t.args) - 1)
      [] t.op = "llm"                           -> SumTextLen(t.args)
      [] OTHER -> 0

\* len(sep.join(frs)) for a separator of seplen characters
JoinedLen(frs, seplen) ==
    IF frs = <<>> THEN 0 ELSE SumTextLen(frs) + seplen * (Len(frs) - 1)

\* variant of NeedsMerge that also sends a single result to the service
NeedsMergeFromOne(rs) == Len(rs) >= 1

\* line 335: len(results) > 1
NeedsMerge(rs) == Len(rs) > 1

\* variant of BatchOf whose batches overlap by one: results[i:i+batch_size+1]
BatchOfOneMore(rs, start) ==
    SubSeq(rs, start + 1,
           IF start + batch_size + 1 < Len(rs) THEN start + batch_size + 1 ELSE Len(rs))

\* line 341: results[i:i+batch_size]
BatchOf(rs, start) ==
    SubSeq(rs, start + 1,
           IF start + batch_size < Len(rs) THEN start + batch_size ELSE Len(rs))

\* one consolidation call as logged
Call(pass, frs, seplen, ok) ==
    [pass |-> pass, members |-> frs, len |-> JoinedLen(frs, seplen), ok |-> ok]

NoReturn == [document |-> NoText]

MInit ==
    /\ last_io = "none"
    /\ mpc = "batch"
    /\ mi = 0
    /\ consolidated_results = <<>>
    /\ mcalls = <<>>
    /\ returned = NoReturn

\* lines 376-377: no result at all
ReturnNothing ==
    /\ pc = "merge"
    /\ mpc = "batch"
    /\ results = <<>>
    /\ returned' = [document |-> MessageText]
    /\ mpc' = "returned"
    /\ UNCHANGED <<chunks, total_chunks, i, chunk, retries, success, results, pc,
                   hist, subs, waits, last_io, mi, consolidated_results, mcalls>>
    /\ UNCHANGED svars

\* lines 374-375: a single result is returned as it is
ReturnSingle ==
    /\ pc = "merge"
    /\ mpc = "batch"
    /\ results # <<>>
    /\ ~NeedsMerge(results)
    /\ returned' = [document |-> RawText(results[1])]
    /\ mpc' = "returned"
    /\ UNCHANGED <<chunks, total_chunks, i, chunk, retries, success, results, pc,
                   hist, subs, waits, last_io, mi, consolidated_results, mcalls>>
    /\ UNCHANGED svars

\* lines 340-354: the consolidation call of one batch succeeds
BatchOk ==
    /\ pc = "merge"
    /\ mpc = "batch"
    /\ NeedsMerge(results)
    /\ mi < Len(results)
    /\ LET batch == BatchOf(Texts(results), mi)
       IN  /\ mcalls' = Append(mcalls, Call(1, batch, BatchSepLen, TRUE))
           /\ consolidated_results' = Append(consolidated_results, LlmText(batch))
    /\ last_io' = AfterCall(mi + batch_size < Len(results))
    /\ mi' = mi + batch_size
    /\ UNCHANGED <<chunks, total_chunks, i, chunk, retries, success, results, pc,
                   hist, subs, waits, mpc, returned>>
    /\ UNCHANGED svars

\* lines 340-347, 356-359: the consolidation call of one batch raises
BatchFail ==
    /\ pc = "merge"
    /\ mpc = "batch"
    /\ NeedsMerge(results)
    /\ mi < Len(results)
    /\ LET batch == BatchOf(Texts(results), mi)
       IN  /\ mcalls' = Append(mcalls, Call(1, batch, BatchSepLen, FALSE))
           /\ consolidated_results' = Append(consolidated_results, JoinText(batch))
    /\ last_io' = AfterCall(FALSE)
    /\ mi' = mi + batch_size
    /\ UNCHANGED <<chunks, total_chunks, i, chunk, retries, success, results, pc,
                   hist, subs, waits, mpc, returned>>
    /\ UNCHANGED svars

\* lines 361-373: after the last batch, one more call over all the
\* consolidated results if there are several (ok: it succeeds), and the return
Finish(ok) ==
    /\ pc = "merge"
    /\ mpc = "batch"
    /\ NeedsMerge(results)
    /\ mi >= Len(results)
    /\ IF Len(consolidated_results) > 1
       THEN /\ mcalls' = Append(mcalls, Call(2, consolidated_results, FinalSepLen, ok))
            /\ returned' = [document |-> IF ok THEN LlmText(consolidated_results)
                                         ELSE JoinText(consolidated_results)]
            /\ last_io' = AfterCall(FALSE)
       ELSE /\ returned' = [document |-> consolidated_results[1]]
            /\ UNCHANGED <<mcalls, last_io>>
    /\ mpc' = "returned"
    /\ UNCHANGED <<chunks, total_chunks, i, chunk, retries, success, results, pc,
                   hist, subs, waits, mi, consolidated_results>>
    /\ UNCHANGED svars

Next ==
    \/ ForNext
    \/ ForEnd
    \/ WhileExit
    \/ LocalExtract
    \/ InvokeOk
    \/ \E msg \in ErrMsgs : InvokeRateLimit(msg)
    \/ \E msg \in ErrMsgs : InvokeOtherError(msg)

(***************************************************************************)
(* Documents of the segmenter.  A document is the parse tree BeautifulSoup *)
(* builds: a sequence of top-level nodes, each a text node or an element   *)
(* with a tag and children.  A string is a sequence of characters.         *)
(***************************************************************************)
\* most children of an element of the second level
MaxKids == 2
\* largest max_chunk_size tried
MaxM == 30

\* line 180: the tags of block_elements
TopTags == {"div", "section", "article", "main", "p", "h1", "h2", "h3", "h4", "h5", "h6"}
\* line 191: the tags of sub_elements
SubTags == {"p", "h1", "h2", "h3", "h4", "h5", "h6", "div", "section"}

\* the tags documents are built from: in both lists, in the first only, in neither
DocTags == {"div", "main", "b"}
TagChars == [div |-> <<"d", "i", "v">>, main |-> <<"m", "a", "i", "n">>, b |-> <<"b">>]

Text(str) == [tag |-> "#text", kids |-> <<>>, text |-> str]
El(tag, kids) == [tag |-> tag, kids |-> kids, text |-> <<>>]

SeqsUpTo(S, n) == UNION {[1..k -> S] : k \in 0..n}

Leaves == {Text(<<"x">>)}
Inner == Leaves \cup {El(t, k) : t \in DocTags, k \in SeqsUpTo(Leaves, 1)}
Mid == Inner \cup {El(t, k) : t \in DocTags, k \in SeqsUpTo(Inner, MaxKids)}
Docs == {<<>>} \cup {<<n>> : n \in Mid} \cup {<<a, b>> : a \in Inner, b \in Inner}

RECURSIVE Concat(_)
Concat(ss) == IF ss = <<>> THEN <<>> ELSE Head(ss) \o Concat(Tail(ss))

\* str(element): the serialization of a node
RECURSIVE Serialize(_)
Serialize(n) ==
    IF n.tag = "#text"
    THEN n.text
    ELSE <<"<">> \o TagChars[n.tag] \o <<">">>
         \o Concat([k \in 1..Len(n.kids) |-> Serialize(n.kids[k])])
         \o <<"<", "/">> \o TagChars[n.tag] \o <<">">>

\* str(soup)
SerializeAll(nodes) == Concat([k \in 1..Len(nodes) |-> Serialize(nodes[k])])

\* find_all(tags) below a list of nodes: every descendant element with one of
\* the tags, nested ones included, in document order
RECURSIVE FindAll(_, _)
FindAll(nodes, tags) ==
    IF nodes = <<>>
    THEN <<>>
    ELSE (IF Head(nodes).tag \in tags THEN <<Head(nodes)>> ELSE <<>>)
         \o FindAll(Head(nodes).kids, tags)
         \o FindAll(Tail(nodes), tags)

\* line 180
block_elements == FindAll(soup, TopTags)

\* the bounds of one slice s[start:start+n], 1-based and inclusive
SliceEnd(start, n, len) == IF start + n - 1 < len THEN start + n - 1 ELSE len

\* variant of Slices whose slices are s[i:i+n+1]
SlicesOneTooLong(s, n) ==
    [k \in 1..((Len(s) + n - 1) \div n) |->
        SubSeq(s, (k - 1) * n + 1, SliceEnd((k - 1) * n + 1, n + 1, Len(s)))]

\* [s[i:i+n] for i in range(0, len(s), n)]
Slices(s, n) ==
    [k \in 1..((Len(s) + n - 1) \div n) |->
        SubSeq(s, (k - 1) * n + 1, SliceEnd((k - 1) * n + 1, n, Len(s)))]

\* lines 195-214: one pass of the loop over sub_elements
SubStep(acc, sub_html, m) ==
    IF Len(sub_html) > m
    THEN [acc EXCEPT !.chunks = acc.chunks \o Slices(sub_html, m)]
    ELSE LET a1 == IF Len(acc.cur) + Len(sub_html) > m /\ acc.cur # <<>>
                   THEN [chunks |-> Append(acc.chunks, acc.cur), cur |-> <<>>]
                   ELSE acc
             a2 == [a1 EXCEPT !.cur = a1.cur \o sub_html]
         IN  IF Len(a2.cur) > m
             THEN [chunks |-> Append(a2.chunks, a2.cur), cur |-> <<>>]
             ELSE a2

\* lines 194-214: the loop over sub_elements
RECURSIVE SubLoop(_, _, _)
SubLoop(acc, sub_elements, m) ==
    IF sub_elements = <<>>
    THEN acc
    ELSE SubLoop(SubStep(acc, Serialize(Head(sub_elements)), m), Tail(sub_elements), m)

\* lines 237-246: the final pass
FinalPass(cs, m) ==
    Concat([k \in 1..Len(cs) |->
        IF Len(cs[k]) > m THEN Slices(cs[k], m) ELSE <<cs[k]>>])

(***************************************************************************)
(* PDF2MarkdownLLM of pdf2markdown.py, lines 18-121.  The files under      *)
(* output_path outlive the instance; the markdown of a page is the         *)
(* service's answer for the text and image files of that page.  A text is  *)
(* a sequence of pieces: a page's markdown or the "\n\n" of line 103.      *)
(***************************************************************************)
\* most calls of run()
MaxRuns == 2
\* most pages of a PDF
MaxPages == 10

\* the page counts of the PDFs tried
PageCounts == {0, 1, 2, MaxPages}

\* line 118: f"{page_num}.md", the decimal digits of page_num
RECURSIVE Stem(_)
Stem(n) == IF n < 10 THEN <<n>> ELSE Stem(n \div 10) \o <<n % 10>>

\* line 100: int(x.stem)
RECURSIVE IntOf(_)
IntOf(d) == IF Len(d) = 1 THEN d[1] ELSE 10 * IntOf(SubSeq(d, 1, Len(d) - 1)) + d[Len(d)]

\* line 100: md_files.sort(key=lambda x: int(x.stem))
RECURSIVE SortByInt(_)
SortByInt(S) ==
    IF S = {}
    THEN <<>>
    ELSE LET first == CHOOSE x \in S : \A y \in S : IntOf(x) <= IntOf(y)
         IN  <<first>> \o SortByInt(S \ {first})

\* line 115: the markdown generated from the files of page n written by run r
PageMd(r, n) == [kind |-> "md", run |-> r, page |-> n]
\* line 103: "\n\n"
BlankLine == [kind |-> "blank", run |-> 0, page |-> 0]

\* lines 99-103: what consolidate_markdown appends to self.markdown
Consolidated(files) ==
    LET order == SortByInt(DOMAIN files)
    IN  Concat([k \in 1..Len(order) |-> <<files[order[k]], BlankLine>>])

\* a file written into a directory: open(path, "w")
WriteFile(dir, name, content) ==
    [n \in DOMAIN dir \cup {name} |-> IF n = name THEN content ELSE dir[n]]

\* lines 28-43: text/<i>.txt and image/<i>.png for the pages 1..n, by run r
WritePageFiles(dir, n, r) ==
    [k \in DOMAIN dir \cup (1..n) |-> IF k \in 1..n THEN r ELSE dir[k]]

\* no function of the converter is running and nothing was ever written
PIdle ==
    /\ run_id = 0
    /\ page_count = 0
    /\ page_num = 0
    /\ page_files = <<>>
    /\ md_files = <<>>
    /\ markdown = <<>>
    /\ saved = <<>>
    /\ rpc = "idle"

\* lines 21-26: a new instance for the same pdf_path and output_dir
NewInstance ==
    /\ rpc \in {"idle", "returned"}
    /\ run_id > 0
    /\ markdown # <<>>
    /\ markdown' = <<>>
    /\ rpc' = "idle"
    /\ UNCHANGED <<run_id, page_count, page_num, page_files, md_files, saved>>
    /\ UNCHANGED webvars

\* lines 105-110: run() on a PDF of n pages up to the head of the loop
RunStart(n) ==
    /\ rpc \in {"idle", "returned"}
    /\ run_id < MaxRuns
    /\ run_id' = run_id + 1
    /\ page_files' = WritePageFiles(page_files, n, run_id')
    /\ page_count' = n
    /\ page_num' = 1
    /\ rpc' = "pages"
    /\ UNCHANGED <<md_files, markdown, saved>>
    /\ UNCHANGED webvars

\* lines 111-118: one pass of the loop, the service answers
PageOk ==
    /\ rpc = "pages"
    /\ page_num <= page_count
    /\ md_files' = WriteFile(md_files, Stem(page_num), PageMd(page_files[page_num], page_num))
    /\ page_num' = page_num + 1
    /\ UNCHANGED <<run_id, page_count, page_files, markdown, saved, rpc>>
    /\ UNCHANGED webvars

\* lines 111-115: the service call of line 94 raises and run() is left
PageRaise ==
    /\ rpc = "pages"
    /\ page_num <= page_count
    /\ rpc' = "idle"
    /\ UNCHANGED <<run_id, page_count, page_num, page_files, md_files, markdown, saved>>
    /\ UNCHANGED webvars

\* lines 119-121: the loop is over; consolidate, save, return
RunFinish ==
    /\ rpc = "pages"
    /\ page_num > page_count
    /\ markdown' = markdown \o Consolidated(md_files)
    /\ saved' = markdown'
    /\ rpc' = "returned"
    /\ UNCHANGED <<run_id, page_count, page_num, page_files, md_files>>
    /\ UNCHANGED webvars

PdfNext ==
    \/ NewInstance
    \/ \E n \in PageCounts : RunStart(n)
    \/ PageOk
    \/ PageRaise
    \/ RunFinish

(***************************************************************************)
(* _split_html_into_chunks, lines 175-246.                                 *)
(***************************************************************************)
SegInit ==
    /\ soup \in Docs
    /\ max_chunk_size \in 1..MaxM
    /\ idx = 0
    /\ seg_chunks = <<>>
    /\ current_chunk = <<>>
    /\ ret = <<>>
    /\ spc = "loop"

\* lines 189-214: an element longer than max_chunk_size that has sub-elements
SegSplitElement ==
    /\ spc = "loop"
    /\ idx < Len(block_elements)
    /\ LET element == block_elements[idx + 1]
           sub_elements == FindAll(element.kids, SubTags)
           acc == SubLoop([chunks |-> seg_chunks, cur |-> current_chunk],
                          sub_elements, max_chunk_size)
       IN  /\ Len(Serialize(element)) > max_chunk_size
           /\ sub_elements # <<>>
           /\ seg_chunks' = acc.chunks
           /\ current_chunk' = acc.cur
    /\ idx' = idx + 1
    /\ UNCHANGED <<soup, max_chunk_size, ret, spc>>
    /\ UNCHANGED tvars

\* lines 189-193, 215-217: an element longer than max_chunk_size without sub-elements
SegSliceElement ==
    /\ spc = "loop"
    /\ idx < Len(block_elements)
    /\ LET element == block_elements[idx + 1]
           element_html == Serialize(element)
       IN  /\ Len(element_html) > max_chunk_size
           /\ FindAll(element.kids, SubTags) = <<>>
           /\ seg_chunks' = seg_chunks \o Slices(element_html, max_chunk_size)
    /\ idx' = idx + 1
    /\ UNCHANGED <<soup, max_chunk_size, current_chunk, ret, spc>>
    /\ UNCHANGED tvars

\* variant of SegAddElement that closes the accumulator already when the
\* element fills it exactly
SegAddElementCloseAtLimit ==
    /\ spc = "loop"
    /\ idx < Len(block_elements)
    /\ LET element_html == Serialize(block_elements[idx + 1])
       IN  /\ Len(element_html) <= max_chunk_size
           /\ IF Len(current_chunk) + Len(element_html) >= max_chunk_size
              THEN /\ seg_chunks' = Append(seg_chunks, current_chunk)
                   /\ current_chunk' = element_html
              ELSE /\ current_chunk' = current_chunk \o element_html
                   /\ UNCHANGED seg_chunks
    /\ idx' = idx + 1
    /\ UNCHANGED <<soup, max_chunk_size, ret, spc>>
    /\ UNCHANGED tvars

\* lines 218-224: an element of at most max_chunk_size characters
SegAddElement ==
    /\ spc = "loop"
    /\ idx < Len(block_elements)
    /\ LET element_html == Serialize(block_elements[idx + 1])
       IN  /\ Len(element_html) <= max_chunk_size
           /\ IF Len(current_chunk) + Len(element_html) > max_chunk_size
              THEN /\ seg_chunks' = Append(seg_chunks, current_chunk)
                   /\ current_chunk' = element_html
              ELSE /\ current_chunk' = current_chunk \o element_html
                   /\ UNCHANGED seg_chunks
    /\ idx' = idx + 1
    /\ UNCHANGED <<soup, max_chunk_size, ret, spc>>
    /\ UNCHANGED tvars

\* lines 226-228: the loop is over, the last accumulator is appended
SegFlush ==
    /\ spc = "loop"
    /\ idx = Len(block_elements)
    /\ seg_chunks' = IF current_chunk # <<>> THEN Append(seg_chunks, current_chunk)
                     ELSE seg_chunks
    /\ spc' = "check"
    /\ UNCHANGED <<soup, max_chunk_size, idx, current_chunk, ret>>
    /\ UNCHANGED tvars

\* lines 232-234: no chunk was produced, the whole document is sliced
SegFallback ==
    /\ spc = "check"
    /\ seg_chunks = <<>>
    /\ ret' = Slices(SerializeAll(soup), max_chunk_size)
    /\ spc' = "done"
    /\ UNCHANGED <<soup, max_chunk_size, idx, seg_chunks, current_chunk>>
    /\ UNCHANGED tvars

\* lines 236-246: the final pass and the return
SegFinal ==
    /\ spc = "check"
    /\ seg_chunks # <<>>
    /\ ret' = FinalPass(seg_chunks, max_chunk_size)
    /\ spc' = "done"
    /\ UNCHANGED <<soup, max_chunk_size, idx, seg_chunks, current_chunk>>
    /\ UNCHANGED tvars

\* the transform loop does not run while a document is segmented
TIdle ==
    /\ chunks = <<>>
    /\ total_chunks = 0
    /\ i = -1
    /\ chunk = NoChunk
    /\ retries = 0
    /\ success = FALSE
    /\ results = <<>>
    /\ pc = "merge"
    /\ hist = <<>>
    /\ subs = <<>>
    /\ waits = <<>>

SegNext ==
    \/ SegSplitElement
    \/ SegSliceElement
    \/ SegAddElement
    \/ SegFlush
    \/ SegFallback
    \/ SegFinal

SegStart == SegInit /\ TIdle /\ MInit /\ PIdle

SegSpec == SegStart /\ [][SegNext]_vars

\* the segmenter does not run during the transform loop
SInit ==
    /\ soup = <<>>
    /\ max_chunk_size = 1
    /\ idx = 0
    /\ seg_chunks = <<>>
    /\ current_chunk = <<>>
    /\ ret = <<>>
    /\ spc = "done"

Init == TInit /\ SInit /\ MInit /\ PIdle

Spec == Init /\ [][Next]_vars

(***************************************************************************)
(* The merge stage, lines 334-377, started in the states in which the      *)
(* transform loop of Spec ends (pc = "merge"), for results lists of every  *)
(* length up to MaxResults.                                                *)
(***************************************************************************)
ResultPatterns == {"payload", "local", "marker"}

\* a results list of n entries: payloads, locally extracted chunks of 4001
\* characters, or payloads after a marker for the first chunk
ResultsOf(n, pat) ==
    [k \in 1..n |->
        CASE pat = "local" -> Payload("local", InputChunk(k, 4001, "none"), k - 1)
          [] pat = "marker" /\ k = 1 -> Marker(InputChunk(k, 1000, "none"), k - 1)
          [] OTHER -> Payload("payload", InputChunk(k, 1000, "none"), k - 1)]

\* what the loop did last before such a list was complete: a local extraction
\* makes no call and sleeps unless it is the only chunk; a payload is followed
\* by a sleep unless it is the last chunk's at the first attempt; an empty
\* list comes from no chunk or from chunks dropped after their last back-off
LastIoOf(n, pat) ==
    CASE n = 0 -> {"none", "sleep"}
      [] n > 0 /\ pat = "local" -> IF n = 1 THEN {"none"} ELSE {"sleep"}
      [] OTHER -> {"call", "sleep"}

MergeStart ==
    /\ \E n \in 0..MaxResults, pat \in ResultPatterns :
          /\ results = ResultsOf(n, pat)
          /\ last_io \in LastIoOf(n, pat)
    /\ chunks = [k \in 1..Len(results) |-> results[k].content]
    /\ total_chunks = Len(chunks)
    /\ i = Len(chunks) - 1
    /\ chunk = NoChunk
    /\ retries = 0
    /\ success = FALSE
    /\ pc = "merge"
    /\ hist = <<>>
    /\ subs = <<>>
    /\ waits = <<>>
    /\ mpc = "batch"
    /\ mi = 0
    /\ consolidated_results = <<>>
    /\ mcalls = <<>>
    /\ returned = NoReturn
    /\ SInit
    /\ PIdle

MergeNext ==
    \/ ReturnNothing
    \/ ReturnSingle
    \/ BatchOk
    \/ BatchFail
    \/ \E ok \in BOOLEAN : Finish(ok)

MergeSpec == MergeStart /\ [][MergeNext]_vars

(***************************************************************************)
(* PDF2MarkdownLLM: instances and runs over one output directory.          *)
(***************************************************************************)
PdfStart == PIdle /\ TIdle /\ MInit /\ SInit

PdfSpec == PdfStart /\ [][PdfNext]_vars

(***************************************************************************)
(* Properties of the transform loop.                                       *)
(***************************************************************************)
\* content a lies wholly before content b in the caller's list
Before(a, b) == a.id < b.id \/ (a.id = b.id /\ a.hi <= b.lo)

\* the entries of results appended while at the current position
ResultsHere == {n \in 1..Len(results) : results[n].part = i + 1}

RateLimited == Raised([rl |-> TRUE, tl |-> FALSE])
PayloadTooLarge == Raised([rl |-> TRUE, tl |-> TRUE])
TransientError == Raised([rl |-> FALSE, tl |-> FALSE])

\* C1: when the transform loop has ended, results has exactly one entry per
\* entry of the grown chunk list, in the same order; no chunk is dropped.
C1_OneResultPerChunk ==
    pc = "merge" =>
        /\ Len(results) = Len(chunks)
        /\ \A n \in 1..Len(results) : results[n].part = n

\* C4: chunks are never reordered.  Results are recorded in content order,
\* everything recorded lies before the content being processed, the content
\* being processed lies before every later entry of the chunk list, the later
\* entries are in content order, and every submission made for a position
\* starts where the position's content starts.
C4_OrderPreserved ==
    /\ \A j, k \in 1..Len(results) :
         j < k => Before(results[j].content, results[k].content)
    /\ \A j, k \in (i + 2)..Len(chunks) : j < k => Before(chunks[j], chunks[k])
    /\ \A n \in 1..Len(results) : \A k \in (i + 2)..Len(chunks) :
         Before(results[n].content, chunks[k])
    /\ pc = "while" =>
         /\ \A n \in 1..Len(results) :
              results[n].part <= i => Before(results[n].content, chunk)
         /\ \A k \in (i + 2)..Len(chunks) : Before(chunk, chunks[k])
         /\ \A n \in 1..Len(subs) :
              /\ subs[n].id = chunk.id
              /\ subs[n].lo = chunk.lo
              /\ subs[n].hi >= chunk.hi

\* a following chunk was processed after a bisected one: first half, second
\* half, then the chunk that followed the parent
C4_Witness ==
    /\ pc = "merge"
    /\ Len(results) = 3
    /\ results[1].content.id = results[2].content.id
    /\ results[1].content.hi = results[2].content.lo
    /\ results[3].content.id # results[1].content.id

\* C5: every bisection yields two non-empty pieces that concatenate to the
\* chunk, the first no longer than half of it, each strictly smaller.
C5_BisectionShrinks ==
    [][Len(chunks') # Len(chunks) =>
        LET first_half == chunk'
            second_half == chunks'[i + 2]
        IN  /\ Len(chunks') = Len(chunks) + 1
            /\ first_half.id = chunk.id /\ second_half.id = chunk.id
            /\ first_half.lo = chunk.lo
            /\ first_half.hi = second_half.lo
            /\ second_half.hi = chunk.hi
            /\ Size(first_half) >= 1 /\ Size(second_half) >= 1
            /\ Size(first_half) < Size(chunk) /\ Size(second_half) < Size(chunk)
            /\ 2 * Size(first_half) <= Size(chunk)]_vars

\* a second half cut after a '>' has itself been cut at its raw midpoint
C5_Witness ==
    /\ pc = "while"
    /\ i = 1
    /\ Len(chunks) = 3
    /\ chunk.pat = "first"
    /\ chunks[2].lo = 1
    /\ chunk.lo = 1
    /\ Size(chunk) = Size(chunks[2]) \div 2
    /\ chunks[3].lo = chunk.hi

\* what is left to do: positions not yet reached weigh 20 per character, the
\* position in hand weighs that less the attempts used
Variant ==
    LET pending == {k \in 1..Len(chunks) : k >= i + 2}
        RECURSIVE Sum(_)
        Sum(S) == IF S = {} THEN 0
                  ELSE LET k == CHOOSE x \in S : TRUE
                       IN  20 * Size(chunks[k]) + Sum(S \ {k})
    IN  Sum(pending)
        + CASE pc = "merge" -> 0
            [] pc = "for"   -> 1
            [] pc = "while" -> 20 * Size(chunk) - 2 * retries - (IF success THEN 1 ELSE 0)

\* C6: the transform loop terminates.  Before merging some step is always
\* possible, no position is submitted more than max_retries times, and every
\* step, whatever the service answers, lowers a natural-number measure.
C6_LoopTerminates ==
    /\ [](pc # "merge" => ENABLED Next)
    /\ [](Len(subs) <= max_retries)
    /\ [][Variant' < Variant /\ Variant' >= 0]_vars

\* merging is reached after a chunk was bisected twice and no call delivered
C6_Witness ==
    /\ pc = "merge"
    /\ Len(chunks) >= 3
    /\ chunks[1].id = chunks[3].id
    /\ \A n \in 1..Len(results) : results[n].kind = "marker"

\* the calls of the current position: k rate-limit answers, then a payload
RateThenOk(k) ==
    /\ Len(hist) = k + 1
    /\ \A j \in 1..k : hist[j] = RateLimited
    /\ hist[k + 1].kind = "ok"

\* C7: k < 3 rate-limit answers followed by a payload: k + 1 submissions of
\* the same content, waits of 30 then 60 seconds before the retries, and
\* exactly one result for the chunk, the payload.
C7_RateLimitRetry ==
    \A k \in 0..(max_retries - 1) :
        RateThenOk(k) =>
            /\ Len(subs) = k + 1
            /\ \A j \in 1..Len(subs) : subs[j] = chunks[i + 1]
            /\ Len(waits) >= k
            /\ SubSeq(waits, 1, k) = SubSeq(<<30, 60>>, 1, k)
            /\ Cardinality(ResultsHere) = 1
            /\ Last(results) = Payload("payload", chunks[i + 1], i)
            /\ success

C7_Witness == RateThenOk(2)

\* every call of the current position was answered "too large"
AllTooLarge == Len(hist) >= 1 /\ \A j \in 1..Len(hist) : hist[j] = PayloadTooLarge

\* number of strings the caller passed in
InitialCount == Cardinality({chunks[k].id : k \in 1..Len(chunks)})

\* C8: a chunk always answered PayloadTooLarge is bisected down to the floor
\* and the remaining piece is then accepted or recorded as unavailable; the
\* chunk count never decreases.
C8_TooLargeEndsRecorded ==
    /\ Len(chunks) >= InitialCount
    /\ (pc = "while" /\ ~WhileCond /\ AllTooLarge) =>
         /\ Size(chunk) <= SplitFloor
         /\ \E n \in ResultsHere : results[n].kind \in {"payload", "local", "marker"}

\* every call of the current position failed with a general error, n calls so far
AllTransient(n) == Len(hist) = n /\ \A j \in 1..n : hist[j] = TransientError

\* C9: general errors are retried after 5 seconds each, with the same
\* content; the third one appends exactly one marker with the chunk's number
\* and ends the retry loop, so that the next chunk is taken.
C9_TransientGivesMarker ==
    /\ \A n \in 1..(max_retries - 1) :
         AllTransient(n) =>
            /\ waits = [j \in 1..n |-> 5]
            /\ ResultsHere = {}
            /\ pc = "while" /\ WhileCond
    /\ AllTransient(max_retries) =>
            /\ waits = <<5, 5>>
            /\ \A j \in 1..Len(subs) : subs[j] = chunks[i + 1]
            /\ Cardinality(ResultsHere) = 1
            /\ Last(results) = [kind |-> "marker", part |-> i + 1, content |-> chunks[i + 1]]
            /\ ~WhileCond
            /\ pc = "while" => ENABLED WhileExit

\* a second chunk is given up after the first one was
C9_Witness ==
    /\ AllTransient(max_retries)
    /\ i = 1
    /\ Len(results) = 2
    /\ results[1].kind = "marker"

\* the split point of the specification: just after the last '>' at or
\* before the midpoint, else the midpoint
BoundaryAtOrBeforeMidpoint(c) ==
    LET half == Size(c) \div 2
        gts == {n \in 1..half : IsGt(c.pat, c.lo + n - 1)}
    IN  IF gts = {} THEN half ELSE SetMax(gts)

\* C10: every oversize answer bisects the chunk, enqueues the second half
\* right after the current position and resubmits the first half.
C10_OversizeAlwaysBisects ==
    [][(Len(hist') = Len(hist) + 1 /\ Last(hist').kind = "error" /\ Last(hist').tl) =>
        LET sp == BoundaryAtOrBeforeMidpoint(chunk)
        IN  /\ chunk' = Prefix(chunk, sp)
            /\ chunks' = InsertAt(chunks, i + 1, Suffix(chunk, sp))
            /\ ~success' /\ retries' < max_retries]_vars

(***************************************************************************)
(* Properties of the segmenter.                                            *)
(***************************************************************************)
\* C2: the chunks returned, concatenated in order, are the document.
C2_Lossless == spc = "done" => Concat(ret) = SerializeAll(soup)

\* C3: every chunk returned has at most max_chunk_size characters.
C3_ChunksWithinLimit ==
    spc = "done" => \A k \in 1..Len(ret) : Len(ret[k]) <= max_chunk_size

\* an oversized element was sliced and an accumulator was flushed
C3_Witness ==
    /\ spc = "done"
    /\ seg_chunks # <<>>
    /\ current_chunk # <<>>
    /\ Len(ret) >= 3
    /\ \E k \in 1..Len(ret) : Len(ret[k]) = max_chunk_size
    /\ \E k \in 1..Len(ret) : Len(ret[k]) < max_chunk_size

(***************************************************************************)
(* Claims about the merge stage (MergeSpec).                               *)
(***************************************************************************)
Pass1Calls == SelectSeq(mcalls, LAMBDA c : c.pass = 1)
Pass2Calls == SelectSeq(mcalls, LAMBDA c : c.pass = 2)
Min(a, b) == IF a < b THEN a ELSE b
\* the k-th run of five adjacent results, as texts
AdjacentFive(k) ==
    SubSeq(Texts(results), 5 * (k - 1) + 1, Min(5 * k, Len(results)))
\* ceil(n / 5)
CeilFifth(n) == (n + 4) \div 5

\* C11: when results has exactly one entry the merge stage makes no
\* consolidation call and returns that entry unchanged.
C11_SingleResultReturnedAsIs ==
    (pc = "merge" /\ Len(results) = 1) =>
        /\ mcalls = <<>>
        /\ consolidated_results = <<>>
        /\ mpc = "returned" => returned = [document |-> RawText(results[1])]

C11_Witness ==
    /\ mpc = "returned"
    /\ Len(results) = 1
    /\ results[1].kind = "payload"
    /\ returned.document.leaf = results[1]

\* C12: for n > 1 results the first pass makes one call per run of five
\* adjacent results (the last run may be shorter), ceil(n/5) calls in all, and
\* collects one fragment per call in the same order; then at most one more
\* call merges the fragments into the single returned document.  For n = 12
\* the calls have 5, 5, 2 and then 3 members.
C12_BatchesOfFiveInOrder ==
    (pc = "merge" /\ Len(results) > 1) =>
        /\ Len(consolidated_results) = Len(Pass1Calls)
        /\ \A k \in 1..Len(Pass1Calls) :
              /\ Pass1Calls[k].members = AdjacentFive(k)
              /\ consolidated_results[k].args = AdjacentFive(k)
              /\ mcalls[k].pass = 1
        /\ Len(Pass1Calls) <= CeilFifth(Len(results))
        /\ mpc = "returned" =>
              /\ Len(Pass1Calls) = CeilFifth(Len(results))
              /\ Len(Pass2Calls) = (IF CeilFifth(Len(results)) > 1 THEN 1 ELSE 0)
              /\ \A k \in 1..Len(Pass2Calls) :
                    /\ Pass2Calls[k].members = consolidated_results
                    /\ returned.document.args = consolidated_results
              /\ Len(Pass2Calls) = 0 => returned.document = consolidated_results[1]
              /\ Len(results) = 12 =>
                    [k \in 1..Len(mcalls) |-> Len(mcalls[k].members)] = <<5, 5, 2, 3>>

C12_Witness ==
    /\ mpc = "returned"
    /\ Len(results) = 12
    /\ Len(mcalls) = 4
    /\ \A k \in 1..Len(mcalls) : mcalls[k].ok
    /\ returned.document.op = "llm"

\* C13: every consolidation call, of the first pass and of every later pass,
\* receives at most batch_size (5) fragments.
C13_EveryCallAtMostBatchSize ==
    \A k \in 1..Len(mcalls) : Len(mcalls[k].members) <= batch_size

\* C14: the combined size of the content submitted in every consolidation
\* call is within the size limit of the service (the 4000 characters above
\* which line 271 does not send a chunk to it).
C14_CallsWithinSizeLimit ==
    \A k \in 1..Len(mcalls) : mcalls[k].len <= LocalLimit

\* C15: a batch whose consolidation call fails contributes the concatenation
\* of its members in order, the other batches contribute the service's answer
\* as if nothing had failed, the stage goes on to return a document, and a
\* failing final call returns the concatenation of all fragments in order.
C15_FailedBatchFallsBack ==
    /\ \A k \in 1..Len(Pass1Calls) :
          /\ consolidated_results[k].args = AdjacentFive(k)
          /\ consolidated_results[k].op = (IF Pass1Calls[k].ok THEN "llm" ELSE "join")
    /\ (pc = "merge" /\ mpc # "returned") => ENABLED MergeNext
    /\ \A k \in 1..Len(Pass2Calls) :
          /\ mpc = "returned"
          /\ returned.document.args = consolidated_results
          /\ returned.document.op = (IF Pass2Calls[k].ok THEN "llm" ELSE "join")
          /\ Len(returned.document.args) = CeilFifth(Len(results))

C15_Witness ==
    /\ mpc = "returned"
    /\ Len(Pass1Calls) >= 3
    /\ ~Pass1Calls[2].ok
    /\ Pass1Calls[1].ok
    /\ Pass1Calls[3].ok
    /\ Len(Pass2Calls) = 1
    /\ ~Pass2Calls[1].ok
    /\ returned.document.op = "join"

\* C16: the value returned to the caller carries, besides the document, the
\* list of the indices of the chunks that ended as a marker, and that list is
\* non-empty exactly when results holds a marker.
C16_FailedIndicesReturned ==
    mpc = "returned" =>
        /\ "failed" \in DOMAIN returned
        /\ (returned.failed # <<>>) <=> (\E k \in 1..Len(results) : results[k].kind = "marker")

(***************************************************************************)
(* Further properties of the segmenter (SegSpec).                          *)
(***************************************************************************)
\* C17: a non-empty document whose serialization is shorter than
\* max_chunk_size is returned as exactly one chunk.
C17_SmallDocumentOneChunk ==
    (spc = "done" /\ soup # <<>> /\ Len(SerializeAll(soup)) < max_chunk_size)
        => Len(ret) = 1

\* a document of block elements that hold text only, one after the other
FlatDoc(nodes) ==
    \A k \in 1..Len(nodes) :
        /\ nodes[k].tag \in TopTags
        /\ \A j \in 1..Len(nodes[k].kids) : nodes[k].kids[j].tag = "#text"

HasChar(str, c) == \E p \in 1..Len(str) : str[p] = c

\* C18: chunks are emitted in document order: when element A comes before
\* element B in a document of sibling block elements, no chunk holding
\* characters of B's tags comes before a chunk holding characters of A's tags.
C18_DocumentOrder ==
    (spc = "done" /\ FlatDoc(soup)) =>
        \A a, b \in 1..Len(soup) :
            (a < b /\ soup[a].tag # soup[b].tag) =>
                \A ka, kb \in 1..Len(ret) :
                    (/\ HasChar(ret[ka], TagChars[soup[a].tag][1])
                     /\ HasChar(ret[kb], TagChars[soup[b].tag][1])) => ka <= kb

\* str occurs in one piece inside chunk c
OccursWhole(str, c) ==
    \E off \in 0..(Len(c) - Len(str)) : SubSeq(c, off + 1, off + Len(str)) = str

\* C19: an element of at most max_chunk_size characters is taken whole: it is
\* appended to the accumulator when the two together have at most
\* max_chunk_size characters (exactly max_chunk_size included), otherwise the
\* non-empty accumulator is closed as a chunk and the element starts the next
\* one; such an element is found in one piece in a returned chunk and no
\* returned chunk is empty.
C19_AccumulateThenClose ==
    /\ [][(/\ spc = "loop"
           /\ idx < Len(block_elements)
           /\ Len(Serialize(block_elements[idx + 1])) <= max_chunk_size)
          => LET node == Serialize(block_elements[idx + 1])
             IN  IF Len(current_chunk) + Len(node) <= max_chunk_size
                 THEN /\ current_chunk' = current_chunk \o node
                      /\ seg_chunks' = seg_chunks
                 ELSE /\ current_chunk # <<>>
                      /\ seg_chunks' = Append(seg_chunks, current_chunk)
                      /\ current_chunk' = node]_vars
    /\ [](spc = "done" =>
            /\ \A k \in 1..Len(ret) : ret[k] # <<>>
            /\ \A e \in 1..Len(block_elements) :
                  Len(Serialize(block_elements[e])) <= max_chunk_size =>
                      \E k \in 1..Len(ret) : OccursWhole(Serialize(block_elements[e]), ret[k]))

\* an accumulator was closed for an element that did not fit and another
\* element then filled the new accumulator exactly
C19_Witness ==
    /\ spc = "done"
    /\ idx = 3
    /\ Len(ret) = 2
    /\ Len(ret[1]) = max_chunk_size
    /\ Len(ret[2]) = max_chunk_size
    /\ Len(Serialize(block_elements[2])) < max_chunk_size
    /\ Len(Serialize(block_elements[3])) < max_chunk_size

(***************************************************************************)
(* Pacing of the service calls (Spec for the transform loop, MergeSpec for *)
(* the merge stage).                                                       *)
(***************************************************************************)
\* a step that calls the service: a transform call or a consolidation call
ServiceCallStep ==
    \/ Len(subs') = Len(subs) + 1
    \/ Len(mcalls') = Len(mcalls) + 1

\* C20: a sleep lies between any two consecutive service calls: no call is
\* made when the last thing the function did with the service or the clock
\* was another call.
C20_SleepBetweenCalls == [][ServiceCallStep => last_io # "call"]_vars

(***************************************************************************)
(* The retry counter of the transform loop (Spec).                         *)
(***************************************************************************)
\* the exceptions among the passes of the retry loop logged in h
Failures(h) == SelectSeq(h, LAMBDA e : e.kind = "error")

\* C21: at each position of the chunk list the service is called at most 3
\* times whatever the errors are: the one counter retries counts every
\* exception of the position, goes up by one on every exception, also on the
\* one that bisects the chunk, and is 0 when a position is entered, also a
\* position that a bisection inserted.
C21_AtMostThreeCallsPerPosition ==
    /\ [](Len(subs) <= 3)
    /\ [](pc = "while" =>
            /\ retries = Len(Failures(hist))
            /\ Len(subs) = retries + (IF success /\ Last(hist).kind = "ok" THEN 1 ELSE 0))
    /\ [][/\ (Len(hist') = Len(hist) + 1 /\ Last(hist').kind = "error")
             => retries' = retries + 1
          /\ i' # i => (retries' = 0 /\ subs' = <<>> /\ i' = i + 1)]_vars

\* an inserted second half was itself called three times: a rate-limit error
\* that bisected it, and errors of both kinds
C21_Witness ==
    /\ pc = "while"
    /\ i = 1
    /\ Len(chunks) = 3
    /\ chunks[2].id = chunks[1].id
    /\ Len(subs) = 3
    /\ retries = 3
    /\ Size(subs[3]) < Size(subs[1])
    /\ \E k \in 1..Len(hist) : hist[k].kind = "error" /\ hist[k].rl
    /\ \E k \in 1..Len(hist) : hist[k].kind = "error" /\ ~hist[k].rl

(***************************************************************************)
(* PDF2MarkdownLLM.run (PdfSpec).                                          *)
(***************************************************************************)
\* the markdown of the pages 1..n of run r, each followed by a blank line
PagesOfRun(r, n) == Concat([k \in 1..n |-> <<PageMd(r, k), BlankLine>>])

\* C22: whenever run() has returned for a PDF of page_count pages, both
\* output_by_llm.md and self.markdown are exactly the markdown of the pages
\* 1..page_count of that run, each once and each followed by a blank line, in
\* ascending numeric page order, whatever ran before on the instance or into
\* the directory.
C22_OutputIsThisRunsPages ==
    rpc = "returned" =>
        /\ saved = PagesOfRun(run_id, page_count)
        /\ markdown = PagesOfRun(run_id, page_count)

====
